---- MODULE Spec2Model ----
(***************************************************************************)
(* The e-commerce dashboard of src/dashboard.py as a state machine.        *)
(*                                                                         *)
(* The script is run from top to bottom once when the page opens and once  *)
(* more every time the date-range widget changes.  A state holds the       *)
(* loaded table (all_df), the selected range, the filtered table           *)
(* (main_df), the seven summary tables, the scalar metrics and the data    *)
(* and palette of every bar chart coloured by set_palette.                 *)
(*                                                                         *)
(* Representation                                                          *)
(*  - a DataFrame is a sequence of rows, a row a record keyed by column    *)
(*    name; the field "label" is the row's index label;                    *)
(*  - a Timestamp is [date, time]: a calendar day number and a time of day *)
(*    (0 is midnight, 00:00:00); a datetime.date is a day number;          *)
(*  - a missing cell (NaN / NaT) is NaN; all other numbers are >= 0;       *)
(*  - a float produced by a mean is a fixed-point integer, the exact value *)
(*    times FloatScale; FloatScale is a multiple of every row count the    *)
(*    model reaches, so every mean is exact;                               *)
(*  - text labels (category, state, day, time, payment type) are integers  *)
(*    standing for the label's rank in string order.                       *)
(***************************************************************************)
EXTENDS Integers, Sequences, FiniteSets, TLC

VARIABLES
    all_df,            \* the loaded, date-sorted table
    start_date,        \* widget value: first day of the range
    end_date,          \* widget value: last day of the range
    main_df,           \* the filtered table
    daily_orders_df, products_df, byday_df, bytime_df, bystate_df,
    payment_df, rfm_df,
    total_orders, total_revenue,
    avg_recency, avg_frequency, avg_monetary,
    best_selling, worst_selling,
    chart_rating, chart_revenue, chart_state, chart_payment,
    chart_byday, chart_bytime,
    series, colors, pal,   \* a single call of set_palette: arguments, result
    pc                     \* "dashboard", or a single call's "start" / "done"

vars == <<all_df, start_date, end_date, main_df, daily_orders_df, products_df,
          byday_df, bytime_df, bystate_df, payment_df, rfm_df, total_orders,
          total_revenue, avg_recency, avg_frequency, avg_monetary,
          best_selling, worst_selling, chart_rating, chart_revenue,
          chart_state, chart_payment, chart_byday, chart_bytime,
          series, colors, pal, pc>>

----------------------------------------------------------------------------
(* Bounds of the model *)

\* largest number of rows of a loaded table (Spec, SpecCharts)
MaxRows == 3
\* largest number of rows of a filtered table in SpecProducts
MaxProdRows == 7
\* largest number of rows of a filtered table in SpecRfm
MaxRfmRows == 2
\* last calendar day of the model; days are 0..MaxDay
MaxDay == 1
\* longest sequence and largest value handed to set_palette in SpecPalette
MaxLen == 4
MaxVal == 3

Days == 0..MaxDay
\* 0 is midnight; 1 is any later time of the same day
TimesOfDay == {0, 1}

----------------------------------------------------------------------------
(* Values *)

\* a missing cell, as read_csv produces for an empty field; also the result
\* of a reduction that has nothing to reduce (mean or max of nothing)
NaN == -1

Max2(a, b) == IF a >= b THEN a ELSE b

RECURSIVE Gcd(_, _)
Gcd(a, b) == IF b = 0 THEN a ELSE Gcd(b, a % b)

RECURSIVE LcmUpTo(_)
LcmUpTo(n) == IF n <= 1 THEN 1
              ELSE LET l == LcmUpTo(n - 1) IN (l * n) \div Gcd(l, n)

\* the fixed-point unit of a float: every count of rows divides it
FloatScale == LcmUpTo(Max2(Max2(MaxRows, MaxRfmRows), MaxProdRows))

Timestamp(d, t) == [date |-> d, time |-> t]

\* Timestamp comparison
TsLeq(a, b) == a.date < b.date \/ (a.date = b.date /\ a.time <= b.time)

\* the latest of a non-empty sequence of Timestamps
TsMax(s) == CHOOSE m \in {s[i] : i \in 1..Len(s)} :
                \A j \in 1..Len(s) : TsLeq(s[j], m)

\* str(date) compared with a datetime column: the string "YYYY-MM-DD" is
\* parsed to the Timestamp of that day at 00:00:00
DateStrToTimestamp(d) == Timestamp(d, 0)

----------------------------------------------------------------------------
(* Series and reductions *)

Column(df, col) == [i \in 1..Len(df) |-> df[i][col]]

RECURSIVE SeqSum(_)
SeqSum(s) == IF Len(s) = 0 THEN 0 ELSE Head(s) + SeqSum(Tail(s))

NotNa(s) == SelectSeq(s, LAMBDA v : v # NaN)

\* Series.sum(): missing values are skipped, the sum of nothing is 0
SeriesSum(s) == SeqSum(NotNa(s))

\* Series.count(): the number of non-missing values
SeriesCount(s) == Len(NotNa(s))

\* Series.nunique(): the number of distinct non-missing values
SeriesNunique(s) == Cardinality({s[i] : i \in 1..Len(s)} \ {NaN})

\* Series.mean(): missing values are skipped, the mean of nothing is NaN
SeriesMean(s) ==
    LET v == NotNa(s)
    IN  IF Len(v) = 0 THEN NaN ELSE (SeqSum(v) * FloatScale) \div Len(v)

\* Series.max(): missing values are skipped, the max of nothing is NaN
SeriesMax(s) ==
    LET v == NotNa(s)
    IN  IF Len(v) = 0 THEN NaN
        ELSE CHOOSE m \in {v[i] : i \in 1..Len(v)} :
                 \A j \in 1..Len(v) : v[j] <= m

SeriesMin(s) ==
    LET v == NotNa(s)
    IN  IF Len(v) = 0 THEN NaN
        ELSE CHOOSE m \in {v[i] : i \in 1..Len(v)} :
                 \A j \in 1..Len(v) : v[j] >= m

RECURSIVE SetToSortedSeq(_)
SetToSortedSeq(S) ==
    IF S = {} THEN <<>>
    ELSE LET m == CHOOSE x \in S : \A y \in S : x <= y
         IN  <<m>> \o SetToSortedSeq(S \ {m})

\* groupby(by=col): the distinct non-missing keys in ascending order
GroupKeys(df, col) ==
    SetToSortedSeq({df[i][col] : i \in 1..Len(df)} \ {NaN})

Group(df, col, k) == SelectSeq(df, LAMBDA r : r[col] = k)

\* DataFrame.head(n)
HeadRows(df, n) == SubSeq(df, 1, IF Len(df) < n THEN Len(df) ELSE n)

\* DataFrame.sort_values(by=col, ascending=asc).  No sort key of a summary
\* table is ever missing.  Rows with equal keys keep their relative order:
\* the default sort of a column shorter than 16 rows is an insertion sort,
\* and every table of this model is shorter than that.
RECURSIVE SortValues(_, _, _)
SortValues(df, col, asc) ==
    IF Len(df) = 0 THEN <<>>
    ELSE LET keys == Column(df, col)
             best == IF asc THEN SeriesMin(keys) ELSE SeriesMax(keys)
             i    == CHOOSE k \in 1..Len(df) :
                        /\ df[k][col] = best
                        /\ \A j \in 1..(k - 1) : df[j][col] # best
             rest == [j \in 1..(Len(df) - 1) |->
                        IF j < i THEN df[j] ELSE df[j + 1]]
         IN  <<df[i]>> \o SortValues(rest, col, asc)

\* DataFrame.reset_index(): the old row labels become the column "index";
\* rows of a freshly grouped table are labelled 0, 1, ... in key order
WithIndex(rows) == [i \in 1..Len(rows) |-> [index |-> i - 1] @@ rows[i]]

\* round half to even of n / d, for n >= 0 and d > 0
RoundHalfEven(n, d) ==
    LET q == n \div d
        r == n % d
    IN  IF 2 * r < d THEN q
        ELSE IF 2 * r > d THEN q + 1
        ELSE IF q % 2 = 0 THEN q ELSE q + 1

\* an integer as a float
ToFloat(n) == IF n = NaN THEN NaN ELSE n * FloatScale

\* round(x, ndigits) of a float x: the number of 10^-ndigits units;
\* round(nan, n) is nan
Round(x, ndigits) ==
    IF x = NaN THEN NaN
    ELSE RoundHalfEven(x * (IF ndigits = 1 THEN 10 ELSE 100), FloatScale)

\* format_currency(x, "BRL", locale='pt_BR'): the amount in centavos that the
\* text shows; a NaN has no amount
format_currency(x) ==
    IF x = NaN THEN NaN ELSE RoundHalfEven(x * 100, FloatScale)

----------------------------------------------------------------------------
(* The seven aggregators.  Each is given the table by reference and returns *)
(* [out |-> the summary table, df |-> the table as the call leaves it].     *)

\* create_daily_orders_df truncating order_date to the day in df itself
\* before it bins the rows
create_daily_orders_df_inplace(df) ==
    LET floored == [i \in 1..Len(df) |->
                      [df[i] EXCEPT !.order_date = Timestamp(@.date, 0)]]
        dates == [i \in 1..Len(df) |-> df[i].order_date.date]
        first == SeriesMin(dates)
        last  == SeriesMax(dates)
        bin(d) == SelectSeq(floored, LAMBDA r : r.order_date.date = d)
        daily == IF Len(df) = 0 THEN <<>>
                 ELSE [k \in 1..(last - first + 1) |->
                        LET d == first + k - 1
                        IN  [order_date  |-> Timestamp(d, 0),
                             order_count |-> SeriesNunique(Column(bin(d), "order_id")),
                             revenue     |-> SeriesSum(Column(bin(d), "price"))]]
    IN  [out |-> daily, df |-> floored]

create_daily_orders_df(df) ==
    LET dates == [i \in 1..Len(df) |-> df[i].order_date.date]
        first == SeriesMin(dates)
        last  == SeriesMax(dates)
        bin(d) == SelectSeq(df, LAMBDA r : r.order_date.date = d)
        \* resample(rule='D'): one bin per calendar day from the first to
        \* the last day of the table, days without rows included
        daily == IF Len(df) = 0 THEN <<>>
                 ELSE [k \in 1..(last - first + 1) |->
                        LET d == first + k - 1
                        IN  [order_date  |-> Timestamp(d, 0),
                             order_count |-> SeriesNunique(Column(bin(d), "order_id")),
                             revenue     |-> SeriesSum(Column(bin(d), "price"))]]
    IN  [out |-> daily, df |-> df]

\* create_products_df without its sort_values
create_products_df_unsorted(df) ==
    LET keys == GroupKeys(df, "product_category")
        grouped == [k \in 1..Len(keys) |->
                      LET g == Group(df, "product_category", keys[k])
                      IN  [product_category |-> keys[k],
                           products_sold |-> SeriesCount(Column(g, "order_id")),
                           rating        |-> SeriesMean(Column(g, "rating")),
                           revenue       |-> SeriesSum(Column(g, "price"))]]
    IN  [out |-> WithIndex(grouped), df |-> df]

create_products_df(df) ==
    LET keys == GroupKeys(df, "product_category")
        grouped == [k \in 1..Len(keys) |->
                      LET g == Group(df, "product_category", keys[k])
                      IN  [product_category |-> keys[k],
                           products_sold |-> SeriesCount(Column(g, "order_id")),
                           rating        |-> SeriesMean(Column(g, "rating")),
                           revenue       |-> SeriesSum(Column(g, "price"))]]
    IN  [out |-> SortValues(WithIndex(grouped), "products_sold", FALSE),
         df  |-> df]

\* groupby(by=col)[measure].nunique().reset_index()
NuniqueBy(df, col, measure) ==
    LET keys == GroupKeys(df, col)
    IN  [k \in 1..Len(keys) |->
            (col :> keys[k]) @@
            (measure :> SeriesNunique(Column(Group(df, col, keys[k]), measure)))]

create_byday_df(df) == [out |-> NuniqueBy(df, "day", "order_id"), df |-> df]

create_bytime_df(df) == [out |-> NuniqueBy(df, "time", "order_id"), df |-> df]

create_bystate_df(df) ==
    [out |-> NuniqueBy(df, "state", "customer_id"), df |-> df]

create_payment_df(df) ==
    LET keys == GroupKeys(df, "payment_type")
        grouped == [k \in 1..Len(keys) |->
                      LET g == Group(df, "payment_type", keys[k])
                      IN  [payment_type |-> keys[k],
                           transaction  |-> SeriesNunique(Column(g, "order_id")),
                           amount       |-> SeriesMean(Column(g, "payment_value"))]]
    IN  [out |-> SortValues(WithIndex(grouped), "transaction", FALSE),
         df  |-> df]

\* create_rfm_df taking the most recent date inside each customer's group
create_rfm_df_group_recent(df) ==
    LET keys == GroupKeys(df, "customer_id")
        grouped == [k \in 1..Len(keys) |->
                      LET g == Group(df, "customer_id", keys[k])
                          recent_date ==
                              SeriesMax([i \in 1..Len(g) |-> g[i].order_date.date])
                          max_order_timestamp ==
                              TsMax(Column(g, "order_date")).date
                      IN  [customer_id |-> keys[k],
                           frequency   |-> SeriesNunique(Column(g, "order_id")),
                           monetary    |-> SeriesSum(Column(g, "price")),
                           recency     |-> recent_date - max_order_timestamp]]
    IN  [out |-> WithIndex(grouped), df |-> df]

create_rfm_df(df) ==
    LET keys == GroupKeys(df, "customer_id")
        \* df["order_date"].dt.date.max()
        recent_date == SeriesMax([i \in 1..Len(df) |-> df[i].order_date.date])
        grouped == [k \in 1..Len(keys) |->
                      LET g == Group(df, "customer_id", keys[k])
                          \* the group's latest timestamp, then its date
                          max_order_timestamp ==
                              TsMax(Column(g, "order_date")).date
                      IN  [customer_id |-> keys[k],
                           frequency   |-> SeriesNunique(Column(g, "order_id")),
                           monetary    |-> SeriesSum(Column(g, "price")),
                           recency     |-> recent_date - max_order_timestamp]]
    IN  [out |-> WithIndex(grouped), df |-> df]

----------------------------------------------------------------------------
(* The palette selector *)

\* set_palette highlighting the first maximum only
set_palette_first_max(s, max_color, other_color) ==
    LET max_val == SeriesMax(s)
    IN  [i \in 1..Len(s) |->
            IF /\ s[i] # NaN
               /\ s[i] = max_val
               /\ \A j \in 1..(i - 1) : s[j] # max_val
            THEN max_color ELSE other_color]

set_palette(s, max_color, other_color) ==
    LET max_val == SeriesMax(s)
    IN  [i \in 1..Len(s) |->
            IF s[i] # NaN /\ s[i] = max_val THEN max_color ELSE other_color]

----------------------------------------------------------------------------
(* One run of the script *)

HeadN == 5

\* the filter with its upper bound alone
RangeFilterNoStart(df, s, e) ==
    SelectSeq(df, LAMBDA r : TsLeq(r.order_date, DateStrToTimestamp(e)))

\* all_df[(all_df["order_date"] >= str(start_date)) &
\*        (all_df["order_date"] <= str(end_date))]
RangeFilter(df, s, e) ==
    SelectSeq(df, LAMBDA r :
        /\ TsLeq(DateStrToTimestamp(s), r.order_date)
        /\ TsLeq(r.order_date, DateStrToTimestamp(e)))

\* sns.barplot(<measure>, data=data, palette=palette): bar i shows
\* data[measure][i] in colour palette[i]
Barplot(data, measure, palette) ==
    [values |-> Column(data, measure), palette |-> palette]

max_color == "#90CAF9"
other_color == "lightgrey"

\* Everything the script computes from the loaded table a and the widget's
\* range (s, e).  The seven aggregators are called one after the other on
\* the same main_df object.
Dashboard(a, s, e) ==
    LET filtered == RangeFilter(a, s, e)
        r1 == create_daily_orders_df(filtered)
        r2 == create_products_df(r1.df)
        r3 == create_byday_df(r2.df)
        r4 == create_bytime_df(r3.df)
        r5 == create_bystate_df(r4.df)
        r6 == create_payment_df(r5.df)
        r7 == create_rfm_df(r6.df)
        top == HeadRows(r2.out, HeadN)
    IN  [all_df          |-> a,
         start_date      |-> s,
         end_date        |-> e,
         main_df         |-> r7.df,
         daily_orders_df |-> r1.out,
         products_df     |-> r2.out,
         byday_df        |-> r3.out,
         bytime_df       |-> r4.out,
         bystate_df      |-> r5.out,
         payment_df      |-> r6.out,
         rfm_df          |-> r7.out,
         total_orders    |-> SeriesSum(Column(r1.out, "order_count")),
         total_revenue   |->
             format_currency(ToFloat(SeriesSum(Column(r1.out, "revenue")))),
         avg_recency     |->
             Round(SeriesMean(Column(r7.out, "recency")), 1),
         avg_frequency   |->
             Round(SeriesMean(Column(r7.out, "frequency")), 2),
         avg_monetary    |->
             format_currency(SeriesMean(Column(r7.out, "monetary"))),
         best_selling    |-> top,
         worst_selling   |->
             HeadRows(SortValues(r2.out, "products_sold", TRUE), HeadN),
         chart_rating    |-> Barplot(top, "rating",
             set_palette(Column(top, "rating"), max_color, other_color)),
         chart_revenue   |-> Barplot(top, "revenue",
             set_palette(Column(top, "revenue"), max_color, other_color)),
         chart_state     |-> Barplot(r5.out, "customer_id",
             set_palette(Column(r5.out, "customer_id"), max_color, other_color)),
         chart_payment   |-> Barplot(r6.out, "amount",
             set_palette(Column(r6.out, "amount"), max_color, other_color)),
         chart_byday     |-> Barplot(r3.out, "order_id",
             set_palette(Column(r3.out, "order_id"), max_color, other_color)),
         chart_bytime    |-> Barplot(r4.out, "order_id",
             set_palette(Column(r4.out, "time"), max_color, other_color))]

\* the state shows the dashboard d
Shows(d) ==
    /\ all_df = d.all_df
    /\ start_date = d.start_date
    /\ end_date = d.end_date
    /\ main_df = d.main_df
    /\ daily_orders_df = d.daily_orders_df
    /\ products_df = d.products_df
    /\ byday_df = d.byday_df
    /\ bytime_df = d.bytime_df
    /\ bystate_df = d.bystate_df
    /\ payment_df = d.payment_df
    /\ rfm_df = d.rfm_df
    /\ total_orders = d.total_orders
    /\ total_revenue = d.total_revenue
    /\ avg_recency = d.avg_recency
    /\ avg_frequency = d.avg_frequency
    /\ avg_monetary = d.avg_monetary
    /\ best_selling = d.best_selling
    /\ worst_selling = d.worst_selling
    /\ chart_rating = d.chart_rating
    /\ chart_revenue = d.chart_revenue
    /\ chart_state = d.chart_state
    /\ chart_payment = d.chart_payment
    /\ chart_byday = d.chart_byday
    /\ chart_bytime = d.chart_bytime

\* the next state shows the dashboard d
Becomes(d) ==
    /\ all_df' = d.all_df
    /\ start_date' = d.start_date
    /\ end_date' = d.end_date
    /\ main_df' = d.main_df
    /\ daily_orders_df' = d.daily_orders_df
    /\ products_df' = d.products_df
    /\ byday_df' = d.byday_df
    /\ bytime_df' = d.bytime_df
    /\ bystate_df' = d.bystate_df
    /\ payment_df' = d.payment_df
    /\ rfm_df' = d.rfm_df
    /\ total_orders' = d.total_orders
    /\ total_revenue' = d.total_revenue
    /\ avg_recency' = d.avg_recency
    /\ avg_frequency' = d.avg_frequency
    /\ avg_monetary' = d.avg_monetary
    /\ best_selling' = d.best_selling
    /\ worst_selling' = d.worst_selling
    /\ chart_rating' = d.chart_rating
    /\ chart_revenue' = d.chart_revenue
    /\ chart_state' = d.chart_state
    /\ chart_payment' = d.chart_payment
    /\ chart_byday' = d.chart_byday
    /\ chart_bytime' = d.chart_bytime

----------------------------------------------------------------------------
(* Loaded tables *)

Row(ts, oid, cid, cat, price, rating, ptype, pvalue, state, day, time) ==
    [order_date |-> ts, order_id |-> oid, customer_id |-> cid,
     product_category |-> cat, price |-> price, rating |-> rating,
     payment_type |-> ptype, payment_value |-> pvalue, state |-> state,
     day |-> day, time |-> time]

Timestamps == {Timestamp(d, t) : d \in Days, t \in TimesOfDay}

\* sort_values(by="order_date"): rows in non-decreasing order of order_date
IsDateSorted(rows) ==
    \A i \in 1..(Len(rows) - 1) : TsLeq(rows[i].order_date, rows[i + 1].order_date)

\* reset_index: the rows are labelled 0, 1, ... in sorted order
Labelled(rows) == [i \in 1..Len(rows) |-> [label |-> i - 1] @@ rows[i]]

\* every non-empty date-sorted table of at most n rows drawn from pool
LoadedTables(pool, n) ==
    UNION {{Labelled(rows) : rows \in {x \in [1..k -> pool] : IsDateSorted(x)}}
           : k \in 1..n}

\* the two order lines the dashboard specifications place in time: line v
\* belongs to order v of customer v and differs from the other line in
\* every column
OrderLine(ts, v) ==
    Row(ts, v, v, v, v, 6 - v, v, 2 * v - 1, v, v, v)

OrderRows == {OrderLine(ts, v) : ts \in Timestamps, v \in {1, 2}}

\* rows for the charts: all placed at midnight, differing in time-of-day
\* label, day label (and state) and order (and customer, payment)
ChartRows ==
    {Row(Timestamp(d, 0), oid, oid, 1, 1, 5, oid, oid, day, day, time) :
        d \in Days, oid \in {1, 2}, day \in {1, 2}, time \in {1, 2}}

\* rows for the RFM aggregator: any time, order, customer and price
RfmRows ==
    {Row(ts, oid, cid, 1, price, 5, 1, 1, 1, 1, 1) :
        ts \in Timestamps, oid \in {1, 2}, cid \in {1, 2}, price \in {1, 2}}

\* rows for the product aggregator, all of one timestamp: kind k <= 6 is a
\* line of category k, kind 7 a line without a category, kind 8 a line of
\* category 1 without an order identifier
ProductKinds == 1..8
ProductLine(k) ==
    Row(Timestamp(0, 0),
        IF k = 8 THEN NaN ELSE 1, 1,
        IF k = 7 THEN NaN ELSE IF k = 8 THEN 1 ELSE k,
        1, 5, 1, 1, 1, 1, 1)

\* the non-decreasing sequences of n kinds that are all >= lo
RECURSIVE KindSeqs(_, _)
KindSeqs(n, lo) ==
    IF n = 0 THEN {<<>>}
    ELSE UNION {{<<k>> \o rest : rest \in KindSeqs(n - 1, k)}
                : k \in {x \in ProductKinds : x >= lo}}

\* every table of at most n product lines
ProductTables(n) ==
    UNION {{Labelled([i \in 1..k |-> ProductLine(ks[i])]) : ks \in KindSeqs(k, 1)}
           : k \in 0..n}

\* the widget's initial value: [min_date, max_date] of the loaded table
min_date(a) == a[1].order_date.date
max_date(a) == TsMax(Column(a, "order_date")).date

idle == <<>>

\* no call of a single function is under way
NoCall == series = idle /\ colors = idle /\ pal = idle /\ pc = "dashboard"

InitDashboard(pool) ==
    /\ \E a \in LoadedTables(pool, MaxRows) :
           Shows(Dashboard(a, min_date(a), max_date(a)))
    /\ NoCall

Init == InitDashboard(OrderRows)

\* the user picks the range (s, e); the script runs again
Rerun(s, e) ==
    /\ pc = "dashboard"
    /\ Becomes(Dashboard(all_df, s, e))
    /\ UNCHANGED <<series, colors, pal, pc>>

Next == \E s \in Days, e \in Days : Rerun(s, e)

\* the dashboard over two order lines placed at any times
Spec == Init /\ [][Next]_vars

InitCharts == InitDashboard(ChartRows)

\* the dashboard over rows that differ in the charts' dimensions
SpecCharts == InitCharts /\ [][Next]_vars

----------------------------------------------------------------------------
(* Single calls of the pure functions on a given filtered table or series *)

\* the dashboard variables a single call does not use
dashboard_rest ==
    <<all_df, start_date, end_date, daily_orders_df, byday_df, bytime_df,
      bystate_df, payment_df, total_orders, total_revenue, avg_recency,
      avg_frequency, avg_monetary, chart_rating, chart_revenue, chart_state,
      chart_payment, chart_byday, chart_bytime>>

RestIdle ==
    /\ all_df = idle /\ start_date = idle /\ end_date = idle
    /\ daily_orders_df = idle /\ byday_df = idle /\ bytime_df = idle
    /\ bystate_df = idle /\ payment_df = idle
    /\ total_orders = idle /\ total_revenue = idle
    /\ avg_recency = idle /\ avg_frequency = idle /\ avg_monetary = idle
    /\ chart_rating = idle /\ chart_revenue = idle /\ chart_state = idle
    /\ chart_payment = idle /\ chart_byday = idle /\ chart_bytime = idle

InitProducts ==
    /\ main_df \in ProductTables(MaxProdRows)
    /\ products_df = idle /\ best_selling = idle /\ worst_selling = idle
    /\ rfm_df = idle
    /\ RestIdle
    /\ series = idle /\ colors = idle /\ pal = idle /\ pc = "start"

\* create_products_df(main_df) and the two views the script plots
CallProducts ==
    /\ pc = "start"
    /\ LET r == create_products_df(main_df)
       IN  /\ products_df' = r.out
           /\ main_df' = r.df
           /\ best_selling' = HeadRows(r.out, HeadN)
           /\ worst_selling' =
                  HeadRows(SortValues(r.out, "products_sold", TRUE), HeadN)
    /\ pc' = "done"
    /\ UNCHANGED <<dashboard_rest, rfm_df, series, colors, pal>>

SpecProducts == InitProducts /\ [][CallProducts]_vars

InitRfm ==
    /\ main_df \in LoadedTables(RfmRows, MaxRfmRows)
    /\ products_df = idle /\ best_selling = idle /\ worst_selling = idle
    /\ rfm_df = idle
    /\ RestIdle
    /\ series = idle /\ colors = idle /\ pal = idle /\ pc = "start"

CallRfm ==
    /\ pc = "start"
    /\ LET r == create_rfm_df(main_df)
       IN  rfm_df' = r.out /\ main_df' = r.df
    /\ pc' = "done"
    /\ UNCHANGED <<dashboard_rest, products_df, best_selling, worst_selling,
                   series, colors, pal>>

SpecRfm == InitRfm /\ [][CallRfm]_vars

\* the values of a series: numbers and missing values
PaletteValues == (0..MaxVal) \cup {NaN}

\* the default colours of set_palette, and the pair "H", "B"
ColorPairs == {<<max_color, other_color>>, <<"H", "B">>}

InitPalette ==
    /\ series \in UNION {[1..n -> PaletteValues] : n \in 0..MaxLen}
    /\ colors \in ColorPairs
    /\ pal = idle
    /\ pc = "start"
    /\ main_df = idle /\ products_df = idle /\ best_selling = idle
    /\ worst_selling = idle /\ rfm_df = idle
    /\ RestIdle

CallSetPalette ==
    /\ pc = "start"
    /\ pal' = set_palette(series, colors[1], colors[2])
    /\ pc' = "done"
    /\ UNCHANGED <<dashboard_rest, main_df, products_df, best_selling,
                   worst_selling, rfm_df, series, colors>>

SpecPalette == InitPalette /\ [][CallSetPalette]_vars

----------------------------------------------------------------------------
(* Properties *)

\* the calendar day of row i of table df
DayOf(df, i) == df[i].order_date.date

\* C1: the range filter retains every row of the loaded table whose order
\* date, taken as a calendar day, lies in [start_date, end_date]; a row
\* placed on end_date after midnight is retained.
C1_RetainsEveryDayInRange ==
    pc = "dashboard" =>
        \A i \in 1..Len(all_df) :
            (start_date <= DayOf(all_df, i) /\ DayOf(all_df, i) <= end_date)
                => \E j \in 1..Len(main_df) : main_df[j] = all_df[i]

\* C2: the filtered table is a subsequence of the loaded table in its
\* original order, every retained row's day lies in [start_date, end_date],
\* and the table is empty when start_date > end_date.
C2_FilterSubsequenceInRange ==
    pc = "dashboard" =>
        /\ \A j \in 1..Len(main_df) :
              /\ main_df[j].label + 1 \in 1..Len(all_df)
              /\ all_df[main_df[j].label + 1] = main_df[j]
              /\ start_date <= DayOf(main_df, j)
              /\ DayOf(main_df, j) <= end_date
        /\ \A j \in 1..Len(main_df) : \A k \in 1..Len(main_df) :
              j < k => main_df[j].label < main_df[k].label
        /\ start_date > end_date => main_df = <<>>

\* a three-row table of which the filter keeps the middle row alone
C2_Witness ==
    /\ pc = "dashboard"
    /\ Len(all_df) = 3
    /\ Len(main_df) = 1
    /\ main_df[1].label = 1

\* C3: the total order count (the sum of the per-day order counts) equals
\* the number of distinct order identifiers of the filtered table.
C3_TotalOrdersIsDistinctOrders ==
    pc = "dashboard" =>
        total_orders =
            Cardinality({main_df[i].order_id : i \in 1..Len(main_df)} \ {NaN})

\* C4: the products_sold of all rows of create_products_df add up to the
\* number of rows of the filtered table.
C4_ProductsSoldCountsEveryRow ==
    pc = "done" =>
        SeqSum(Column(products_df, "products_sold")) = Len(main_df)

\* the customers of the filtered table, and the rows of a customer
Customers == {main_df[i].customer_id : i \in 1..Len(main_df)}
RowsOf(c) == {i \in 1..Len(main_df) : main_df[i].customer_id = c}
LastDay(I) == CHOOSE d \in {DayOf(main_df, i) : i \in I} :
                  \A i \in I : DayOf(main_df, i) <= d

\* C5: create_rfm_df returns exactly one row per customer, with recency the
\* whole days from the customer's last order day to the last order day of
\* the whole filtered table, frequency the number of distinct orders and
\* monetary the sum of prices; every recency is >= 0 and some recency is 0.
C5_RfmPerCustomer ==
    pc = "done" =>
        /\ Len(rfm_df) = Cardinality(Customers)
        /\ \A c \in Customers :
              \E k \in 1..Len(rfm_df) :
                  /\ rfm_df[k].customer_id = c
                  /\ rfm_df[k].recency =
                        LastDay(1..Len(main_df)) - LastDay(RowsOf(c))
                  /\ rfm_df[k].frequency =
                        Cardinality({main_df[i].order_id : i \in RowsOf(c)})
                  /\ rfm_df[k].monetary =
                        SeqSum(Column(Group(main_df, "customer_id", c), "price"))
        /\ \A k \in 1..Len(rfm_df) : rfm_df[k].recency >= 0
        /\ \E k \in 1..Len(rfm_df) : rfm_df[k].recency = 0

\* two customers, one of them a day behind the other
C5_Witness ==
    /\ pc = "done"
    /\ Len(rfm_df) = 2
    /\ \E k \in 1..2 : rfm_df[k].recency = 1

\* C6: set_palette returns as many colours as values; position i holds the
\* highlight colour exactly when values[i] is the maximum of the values
\* (every tied maximum), and the base colour otherwise; [3,1,3,2] with H/B
\* gives [H,B,H,B].
C6_PaletteHighlightsMaxima ==
    pc = "done" =>
        /\ Len(pal) = Len(series)
        /\ \A i \in 1..Len(series) :
              LET isMax == /\ series[i] # NaN
                           /\ \A j \in 1..Len(series) :
                                 series[j] # NaN => series[j] <= series[i]
              IN  /\ isMax => pal[i] = colors[1]
                  /\ ~isMax => pal[i] = colors[2]
        /\ (series = <<3, 1, 3, 2>> /\ colors = <<"H", "B">>)
              => pal = <<"H", "B", "H", "B">>

\* the call set_palette([3,1,3,2], "H", "B") has returned
C6_Witness ==
    /\ pc = "done"
    /\ series = <<3, 1, 3, 2>>
    /\ colors = <<"H", "B">>

\* C7: on an empty filtered table every aggregator returns a table without
\* rows and every scalar derived from them is a defined, non-null value.
C7_EmptyRangeIsWellFormed ==
    (pc = "dashboard" /\ Len(main_df) = 0) =>
        /\ daily_orders_df = <<>> /\ products_df = <<>> /\ byday_df = <<>>
        /\ bytime_df = <<>> /\ bystate_df = <<>> /\ payment_df = <<>>
        /\ rfm_df = <<>>
        /\ total_orders # NaN /\ total_revenue # NaN
        /\ avg_recency # NaN /\ avg_frequency # NaN /\ avg_monetary # NaN

\* every table and the unchanged argument, as one more call on f gives them
C8_Recomputed ==
    LET f == RangeFilter(all_df, start_date, end_date)
        Same(r, table) ==
            /\ r.out = table
            /\ r.df = f
    IN  /\ main_df = f
        /\ Same(create_daily_orders_df(f), daily_orders_df)
        /\ Same(create_products_df(f), products_df)
        /\ Same(create_byday_df(f), byday_df)
        /\ Same(create_bytime_df(f), bytime_df)
        /\ Same(create_bystate_df(f), bystate_df)
        /\ Same(create_payment_df(f), payment_df)
        /\ Same(create_rfm_df(f), rfm_df)
        /\ create_daily_orders_df(create_daily_orders_df(f).df).out = daily_orders_df
        /\ create_products_df(create_products_df(f).df).out = products_df
        /\ create_byday_df(create_byday_df(f).df).out = byday_df
        /\ create_bytime_df(create_bytime_df(f).df).out = bytime_df
        /\ create_bystate_df(create_bystate_df(f).df).out = bystate_df
        /\ create_payment_df(create_payment_df(f).df).out = payment_df
        /\ create_rfm_df(create_rfm_df(f).df).out = rfm_df

Min2(a, b) == IF a <= b THEN a ELSE b

\* the categories of the filtered table
CategoriesSold ==
    {main_df[i].product_category : i \in 1..Len(main_df)} \ {NaN}

\* C9: create_products_df lists the n categories in non-increasing order of
\* products_sold; the best-selling view is its first min(5, n) rows; the
\* worst-selling view is the min(5, n) rows of smallest products_sold in
\* non-decreasing order.
C9_BestAndWorstSelling ==
    pc = "done" =>
        LET n == Cardinality(CategoriesSold)
            m == Min2(5, n)
            sold(df, i) == df[i].products_sold
        IN  /\ Len(products_df) = n
            /\ {products_df[i].product_category : i \in 1..n} = CategoriesSold
            /\ \A i \in 1..(n - 1) :
                  sold(products_df, i) >= sold(products_df, i + 1)
            /\ best_selling = SubSeq(products_df, 1, m)
            /\ Len(worst_selling) = m
            /\ \A i \in 1..(m - 1) :
                  sold(worst_selling, i) <= sold(worst_selling, i + 1)
            /\ \A i \in 1..m : \E k \in 1..n : worst_selling[i] = products_df[k]
            /\ \A i \in 1..m : \A j \in 1..m :
                  i # j => worst_selling[i] # worst_selling[j]
            /\ \A k \in 1..n :
                  (\A i \in 1..m : worst_selling[i] # products_df[k])
                      => \A i \in 1..m :
                            sold(worst_selling, i) <= sold(products_df, k)

\* six categories with different sales: each view leaves one category out
C9_Witness ==
    /\ pc = "done"
    /\ Len(products_df) = 6
    /\ products_df[1].products_sold > products_df[6].products_sold
    /\ Len(best_selling) = 5
    /\ Len(worst_selling) = 5

\* bar i of chart c is highlighted exactly when its value is the largest
\* value plotted on c
HighlightsMaxBars(c) ==
    /\ Len(c.palette) = Len(c.values)
    /\ \A i \in 1..Len(c.values) :
          (c.palette[i] = max_color) <=>
              (\A j \in 1..Len(c.values) : c.values[j] <= c.values[i])

\* C10: in every bar chart coloured by set_palette the highlighted bars are
\* exactly the bars whose plotted value is maximal on that chart.
C10_ChartsHighlightPlottedMaxima ==
    pc = "dashboard" =>
        /\ HighlightsMaxBars(chart_rating)
        /\ HighlightsMaxBars(chart_revenue)
        /\ HighlightsMaxBars(chart_state)
        /\ HighlightsMaxBars(chart_payment)
        /\ HighlightsMaxBars(chart_byday)
        /\ HighlightsMaxBars(chart_bytime)

====
